---- MODULE Spec2Model ----
(***************************************************************************)
(* A model of sjson::Parser (includes/sjson/parser.h): a pull parser over  *)
(* an immutable byte buffer with one mutable ParserState.  Every parser    *)
(* method is an operator from a ParserState to its result, translated      *)
(* statement by statement; every call a caller can make is an action.      *)
(* A value a method uses more than once is handed to a helper operator as  *)
(* a parameter (symbol_after_skip is read_symbol after its skip).          *)
(*                                                                         *)
(* pre, op, ret and out record the last call for the properties to speak   *)
(* of: the state it was made in, its name and arguments, what it returned  *)
(* and what it left in its output arguments.  They are cleared by Forget   *)
(* before the next call, so that the calls made from a parser state do not *)
(* depend on the call that led to it.                                      *)
(*                                                                         *)
(* Bytes are one-character strings.  Offsets are 0-based as in the code;   *)
(* the byte at offset o is m_input[o + 1].                                 *)
(***************************************************************************)
EXTENDS Integers, Sequences, FiniteSets, TLC

VARIABLES
    m_input,    \* Parser::m_input (m_input_length is Len(m_input))
    m_state,    \* Parser::m_state
    snapshot,   \* the ParserState a caller holds from save_state()
    pre,        \* m_state when the pending call was made
    op,         \* the call whose results the caller holds: name and arguments
    ret,        \* what that call returned
    out,        \* the output arguments after that call
    scen        \* how far the calls so far follow each scripted scenario

vars == <<m_input, m_state, snapshot, pre, op, ret, out, scen>>

----------------------------------------------------------------------------
(* Bounds of the model.                                                    *)

\* Leading whitespace/comment fragments put in front of a document.
MaxLead == 1
\* Largest num_elements passed to the array reads.
MaxElems == 2

----------------------------------------------------------------------------
(* Bytes.                                                                  *)

\* '\0', which advance() stores in symbol at end of input.
NUL == "NUL"

\* std::isspace over the bytes the inputs hold
isspace(c) == c \in {" ", "\t", "\n", "\r"}

isdigit(c) == c \in {"0", "1", "2", "3", "4", "5", "6", "7", "8", "9"}

MAX_NUMBER_LENGTH == 64

----------------------------------------------------------------------------
(* The collaborators of parser.h: ParserError, ParserState, StringView.    *)

NoError == [error |-> "None", line |-> 0, column |-> 0]

\* ParserState(input, input_length)
ParserState(inp) ==
    [offset |-> 0, line |-> 1, column |-> 1,
     symbol |-> IF Len(inp) > 0 THEN inp[1] ELSE NUL,
     error  |-> NoError]

\* StringView(m_input + offset, length); StringView(nullptr) is the null view.
StringView(offset, length) == [null |-> FALSE, offset |-> offset, length |-> length]

NullView == [null |-> TRUE, offset |-> 0, length |-> 0]

\* The bytes a view spans.
Bytes(v) == IF v.null THEN <<>> ELSE SubSeq(m_input, v.offset + 1, v.offset + v.length)

\* StringView::operator!=(const char*): lengths and bytes compared exactly.
ViewDiffers(v, name) == Bytes(v) # name

----------------------------------------------------------------------------
(* std::strtod on the scratch buffer.  A double is kept as sign, the       *)
(* significant decimal digits and a power of ten, so that 1, 1.0 and 10e-1 *)
(* are one value and 1 and 10 are two.                                     *)

Zero == [neg |-> FALSE, digits |-> <<>>, exp |-> 0]

DigitValue(c) ==
    CASE c = "0" -> 0 [] c = "1" -> 1 [] c = "2" -> 2 [] c = "3" -> 3
      [] c = "4" -> 4 [] c = "5" -> 5 [] c = "6" -> 6 [] c = "7" -> 7
      [] c = "8" -> 8 [] c = "9" -> 9

\* slice[p] exists and is one of the bytes cs.
HasAt(slice, p, cs) == p >= 1 /\ p <= Len(slice) /\ slice[p] \in cs

RECURSIVE DigitRunEnd(_, _)
\* The first index at or after p of slice that holds no digit.
DigitRunEnd(slice, p) ==
    IF p <= Len(slice) /\ isdigit(slice[p]) THEN DigitRunEnd(slice, p + 1) ELSE p

RECURSIVE StripLeadingZeros(_)
StripLeadingZeros(ds) ==
    IF ds # <<>> /\ Head(ds) = "0" THEN StripLeadingZeros(Tail(ds)) ELSE ds

RECURSIVE TrailingZeros(_)
TrailingZeros(ds) ==
    IF ds # <<>> /\ ds[Len(ds)] = "0"
    THEN 1 + TrailingZeros(SubSeq(ds, 1, Len(ds) - 1))
    ELSE 0

RECURSIVE DecimalValue(_)
DecimalValue(ds) ==
    IF ds = <<>> THEN 0
    ELSE 10 * DecimalValue(SubSeq(ds, 1, Len(ds) - 1)) + DigitValue(ds[Len(ds)])

\* The double of the digits all (no leading zero), fracLen of them after the
\* point, times ten to the e; tz is the number of trailing zeros of all.
Decimal(neg, all, tz, fracLen, e) ==
    IF tz = Len(all) THEN [neg |-> neg, digits |-> <<>>, exp |-> 0]
    ELSE [neg |-> neg, digits |-> SubSeq(all, 1, Len(all) - tz), exp |-> e - fracLen + tz]

\* The double of the digits ds read as above.
Significand(neg, ds, fracLen, e) ==
    Decimal(neg, ds, TrailingZeros(ds), fracLen, e)

\* strtod once the ends of the integer, fraction and exponent digits are
\* known; an exponent marker with no digit behind it is not part of the number.
strtod_value(slice, intFrom, intEnd, fracEnd, expFrom, expEnd) ==
    [value |->
        Significand(
            intFrom = 2,
            StripLeadingZeros(SubSeq(slice, intFrom, intEnd - 1)
                              \o SubSeq(slice, intEnd + 1, fracEnd - 1)),
            IF fracEnd > intEnd THEN fracEnd - intEnd - 1 ELSE 0,
            IF expEnd > expFrom
            THEN IF HasAt(slice, expFrom - 1, {"-"})
                 THEN 0 - DecimalValue(SubSeq(slice, expFrom, expEnd - 1))
                 ELSE DecimalValue(SubSeq(slice, expFrom, expEnd - 1))
            ELSE 0),
     used |-> IF expEnd > expFrom THEN expEnd - 1 ELSE fracEnd - 1]

strtod_exponent(slice, intFrom, intEnd, fracEnd, expFrom) ==
    strtod_value(slice, intFrom, intEnd, fracEnd, expFrom,
                 IF HasAt(slice, fracEnd, {"e", "E"})
                 THEN DigitRunEnd(slice, expFrom)
                 ELSE expFrom)

strtod_fraction(slice, intFrom, intEnd, fracEnd) ==
    strtod_exponent(slice, intFrom, intEnd, fracEnd,
                    IF HasAt(slice, fracEnd, {"e", "E"}) /\ HasAt(slice, fracEnd + 1, {"+", "-"})
                    THEN fracEnd + 2
                    ELSE fracEnd + 1)

strtod_integer(slice, intFrom, intEnd) ==
    strtod_fraction(slice, intFrom, intEnd,
                    IF HasAt(slice, intEnd, {"."})
                    THEN DigitRunEnd(slice, intEnd + 1)
                    ELSE intEnd)

strtod_sign(slice, intFrom) ==
    strtod_integer(slice, intFrom, DigitRunEnd(slice, intFrom))

\* strtod(slice, &last_used_symbol): the value and how many bytes were used.
strtod(slice) == strtod_sign(slice, IF HasAt(slice, 1, {"-"}) THEN 2 ELSE 1)

----------------------------------------------------------------------------
(* Parser: the cursor primitives.  A method's result is the state it       *)
(* leaves and what it returns.                                             *)

eof(s) == s.offset >= Len(m_input)

\* advance() without its check for the end of the input
advance_unguarded(s) ==
    IF s.offset + 1 >= Len(m_input)
    THEN [s EXCEPT !.offset = @ + 1, !.symbol = NUL]
    ELSE IF m_input[s.offset + 2] = "\n"
    THEN [s EXCEPT !.offset = @ + 1, !.symbol = "\n", !.line = @ + 1, !.column = 1]
    ELSE [s EXCEPT !.offset = @ + 1, !.symbol = m_input[s.offset + 2], !.column = @ + 1]

\* The state advance() leaves.
advance(s) ==
    IF eof(s) THEN s
    ELSE IF s.offset + 1 >= Len(m_input)
    THEN [s EXCEPT !.offset = @ + 1, !.symbol = NUL]
    ELSE IF m_input[s.offset + 2] = "\n"
    THEN [s EXCEPT !.offset = @ + 1, !.symbol = "\n", !.line = @ + 1, !.column = 1]
    ELSE [s EXCEPT !.offset = @ + 1, !.symbol = m_input[s.offset + 2], !.column = @ + 1]

\* What advance() returns.
advance_ret(s) == ~eof(s)

\* set_error recording the kind and not the position
set_error_kind_only(s, error) == [s EXCEPT !.error.error = error]

set_error(s, error) ==
    [s EXCEPT !.error = [error |-> error, line |-> s.line, column |-> s.column]]

save_state(s) == s

\* restore_state copying the cursor and not the error
restore_state_cursor_only(s, saved) == [saved EXCEPT !.error = s.error]

restore_state(s, saved) == saved

reset_state(s) == ParserState(m_input)

Fail(s) == [ok |-> FALSE, s |-> s]

Pass(s) == [ok |-> TRUE, s |-> s]

----------------------------------------------------------------------------
(* Parser: comments and whitespace.                                        *)

RECURSIVE line_comment(_)
\* while (!eof() && m_state.symbol != '\n') advance();
line_comment(s) ==
    IF ~eof(s) /\ s.symbol # "\n" THEN line_comment(advance(s)) ELSE s

RECURSIVE block_comment_to_eof(_, _)
\* the block comment loop taking the end of the input for the end of the
\* comment
block_comment_to_eof(s, wasAsterisk) ==
    IF eof(s) THEN Pass(s)
    ELSE IF s.symbol = "*" THEN block_comment_to_eof(advance(s), TRUE)
    ELSE IF wasAsterisk /\ s.symbol = "/" THEN Pass(advance(s))
    ELSE block_comment_to_eof(advance(s), FALSE)

RECURSIVE block_comment(_, _)
\* the while (true) loop of read_comment over the body of a block comment
block_comment(s, wasAsterisk) ==
    IF eof(s) THEN Fail(set_error(s, "InputTruncated"))
    ELSE IF s.symbol = "*" THEN block_comment(advance(s), TRUE)
    ELSE IF wasAsterisk /\ s.symbol = "/" THEN Pass(advance(s))
    ELSE block_comment(advance(s), FALSE)

read_comment(s) ==
    IF eof(s) THEN Fail(set_error(s, "InputTruncated"))
    ELSE IF s.symbol = "/" THEN Pass(line_comment(s))
    ELSE IF s.symbol = "*" THEN block_comment(advance(s), FALSE)
    ELSE Fail(set_error(s, "CommentBeginsIncorrectly"))

RECURSIVE skip_comments_and_whitespace(_)
skip_comments_and_whitespace(s) ==
    IF eof(s) THEN Pass(s)
    ELSE IF isspace(s.symbol) THEN skip_comments_and_whitespace(advance(s))
    ELSE IF s.symbol = "/" THEN read_comment(advance(s))
    ELSE Pass(s)

\* skip_comments_and_whitespace_fail_if_eof after its skip returned r
fail_if_eof(r) ==
    IF ~r.ok THEN r
    ELSE IF eof(r.s) THEN Fail(set_error(r.s, "InputTruncated"))
    ELSE r

skip_comments_and_whitespace_fail_if_eof(s) ==
    fail_if_eof(skip_comments_and_whitespace(s))

\* remainder_is_comments_and_whitespace after its skip returned r
fail_if_content(r) ==
    IF ~r.ok THEN r
    ELSE IF ~eof(r.s) THEN Fail(set_error(r.s, "UnexpectedContentAtEnd"))
    ELSE r

remainder_is_comments_and_whitespace(s) ==
    fail_if_content(skip_comments_and_whitespace(s))

----------------------------------------------------------------------------
(* Parser: structural bytes.                                               *)

\* read_symbol leaving the expected byte unconsumed
symbol_after_skip_unconsumed(r, expected, reason_if_other_found) ==
    IF ~r.ok THEN r
    ELSE IF r.s.symbol = expected THEN Pass(r.s)
    ELSE Fail(set_error(r.s, reason_if_other_found))

\* read_symbol consuming the byte it finds in place of the expected one
symbol_after_skip_consuming(r, expected, reason_if_other_found) ==
    IF ~r.ok THEN r
    ELSE IF r.s.symbol = expected THEN Pass(advance(r.s))
    ELSE Fail(advance(set_error(r.s, reason_if_other_found)))

\* read_symbol clearing the recorded error when it finds the expected byte
symbol_after_skip_clearing(r, expected, reason_if_other_found) ==
    IF ~r.ok THEN r
    ELSE IF r.s.symbol = expected THEN Pass(advance([r.s EXCEPT !.error = NoError]))
    ELSE Fail(set_error(r.s, reason_if_other_found))

\* read_symbol after its skip returned r
symbol_after_skip(r, expected, reason_if_other_found) ==
    IF ~r.ok THEN r
    ELSE IF r.s.symbol = expected THEN Pass(advance(r.s))
    ELSE Fail(set_error(r.s, reason_if_other_found))

read_symbol(s, expected, reason_if_other_found) ==
    symbol_after_skip(skip_comments_and_whitespace_fail_if_eof(s),
                      expected, reason_if_other_found)

read_equal_sign(s) == read_symbol(s, "=", "EqualSignExpected")

read_opening_brace(s) == read_symbol(s, "{", "OpeningBraceExpected")

read_closing_brace(s) == read_symbol(s, "}", "ClosingBraceExpected")

read_opening_bracket(s) == read_symbol(s, "[", "OpeningBracketExpected")

read_closing_bracket(s) == read_symbol(s, "]", "ClosingBracketExpected")

read_comma(s) == read_symbol(s, ",", "CommaExpected")

----------------------------------------------------------------------------
(* Parser: strings and keys.  A reader's result carries the state, the     *)
(* return value and the output argument (value0 is what it held before).   *)

FailV(s, value) == [ok |-> FALSE, s |-> s, value |-> value]

PassV(s, value) == [ok |-> TRUE, s |-> s, value |-> value]

RECURSIVE string_body_unescaped(_, _, _)
\* the loop of read_string without the skip over the byte behind a backslash
string_body_unescaped(s, start_offset, value0) ==
    IF eof(s) THEN FailV(set_error(s, "InputTruncated"), value0)
    ELSE IF s.symbol = "\""
    THEN PassV(advance(s), StringView(start_offset, (s.offset - 1) - start_offset + 1))
    ELSE string_body_unescaped(advance(s), start_offset, value0)

RECURSIVE string_body(_, _, _)
\* the while (true) loop of read_string
string_body(s, start_offset, value0) ==
    IF eof(s) THEN FailV(set_error(s, "InputTruncated"), value0)
    ELSE IF s.symbol = "\""
    THEN PassV(advance(s), StringView(start_offset, (s.offset - 1) - start_offset + 1))
    ELSE IF s.symbol = "\\" THEN string_body(advance(advance(s)), start_offset, value0)
    ELSE string_body(advance(s), start_offset, value0)

\* read_string once the opening quote is consumed
string_after_quote(s, value0) == string_body(s, s.offset, value0)

\* read_string after its skip returned r
string_after_skip(r, value0) ==
    IF ~r.ok THEN FailV(r.s, value0)
    ELSE IF r.s.symbol # "\"" THEN FailV(set_error(r.s, "QuotationMarkExpected"), value0)
    ELSE string_after_quote(advance(r.s), value0)

read_string(s, value0) ==
    string_after_skip(skip_comments_and_whitespace_fail_if_eof(s), value0)

RECURSIVE unquoted_key_scan(_)
\* the while (true) loop of read_unquoted_key as far as it only advances: to
\* the end of the input, a quotation mark, an equal sign or whitespace
unquoted_key_scan(s) ==
    IF eof(s) \/ s.symbol = "\"" \/ s.symbol = "=" \/ isspace(s.symbol) THEN s
    ELSE unquoted_key_scan(advance(s))

\* the ways out of that loop, s being where it stops advancing; the last is
\* the one on whitespace
unquoted_key_exit(s, start_offset, value0) ==
    IF eof(s)
    THEN PassV(s, StringView(start_offset, (s.offset - 1) - start_offset + 1))
    ELSE IF s.symbol = "\""
    THEN FailV(set_error(s, "CannotUseQuotationMarkInUnquotedString"), value0)
    ELSE IF s.symbol = "="
    THEN IF s.offset = start_offset
         THEN FailV(set_error(s, "KeyExpected"), value0)
         ELSE PassV(s, StringView(start_offset, (s.offset - 1) - start_offset + 1))
    ELSE PassV(advance(s), StringView(start_offset, (s.offset - 1) - start_offset + 1))

\* the while (true) loop of read_unquoted_key
unquoted_key_body(s, start_offset, value0) ==
    unquoted_key_exit(unquoted_key_scan(s), start_offset, value0)

read_unquoted_key(s, value0) ==
    IF eof(s) THEN FailV(set_error(s, "InputTruncated"), value0)
    ELSE unquoted_key_body(s, s.offset, value0)

\* read_key reporting a mismatch without restoring start_of_key
key_compare_unrestored(k, start_of_key, having_name) ==
    IF ~k.ok THEN FailV(k.s, NullView)
    ELSE IF ViewDiffers(k.value, having_name)
    THEN FailV(set_error(k.s, "IncorrectKey"), k.value)
    ELSE PassV(k.s, k.value)

\* read_key restoring the start of the input on a mismatch
key_compare_rewound(k, start_of_key, having_name) ==
    IF ~k.ok THEN FailV(k.s, NullView)
    ELSE IF ViewDiffers(k.value, having_name)
    THEN FailV(set_error(restore_state(k.s, ParserState(m_input)), "IncorrectKey"), k.value)
    ELSE PassV(k.s, k.value)

\* read_key once the key token was read with result k; value is the token
\* (StringView actual), the null view when none was read.
key_compare(k, start_of_key, having_name) ==
    IF ~k.ok THEN FailV(k.s, NullView)
    ELSE IF ViewDiffers(k.value, having_name)
    THEN FailV(set_error(restore_state(k.s, start_of_key), "IncorrectKey"), k.value)
    ELSE PassV(k.s, k.value)

\* read_key after its skip returned r
key_after_skip(r, having_name) ==
    IF ~r.ok THEN FailV(r.s, NullView)
    ELSE key_compare(IF r.s.symbol = "\"" THEN read_string(r.s, NullView)
                     ELSE read_unquoted_key(r.s, NullView),
                     save_state(r.s), having_name)

read_key(s, having_name) ==
    key_after_skip(skip_comments_and_whitespace_fail_if_eof(s), having_name)

----------------------------------------------------------------------------
(* Parser: booleans and numbers.                                           *)

RECURSIVE literal_rest(_, _)
\* m_state.symbol == c && advance() for each byte c of rest in turn
literal_rest(s, rest) ==
    IF rest = <<>> THEN Pass(s)
    ELSE IF s.symbol = Head(rest) /\ advance_ret(s) THEN literal_rest(advance(s), Tail(rest))
    ELSE Fail(s)

\* read_bool once the bytes of a literal were matched with result m
bool_result(m, literal, start_of_literal, value0) ==
    IF m.ok THEN PassV(m.s, literal)
    ELSE FailV(set_error(restore_state(m.s, start_of_literal), "TrueOrFalseExpected"),
               value0)

\* read_bool after its skip returned r
bool_after_skip(r, value0) ==
    IF ~r.ok THEN FailV(r.s, value0)
    ELSE IF r.s.symbol = "t"
    THEN bool_result(literal_rest(advance(r.s), <<"r", "u", "e">>),
                     TRUE, save_state(r.s), value0)
    ELSE IF r.s.symbol = "f"
    THEN bool_result(literal_rest(advance(r.s), <<"a", "l", "s", "e">>),
                     FALSE, save_state(r.s), value0)
    ELSE bool_result(Fail(r.s), FALSE, save_state(r.s), value0)

read_bool(s, value0) ==
    bool_after_skip(skip_comments_and_whitespace_fail_if_eof(s), value0)

RECURSIVE digit_run(_)
\* while (std::isdigit(m_state.symbol)) advance();
digit_run(s) == IF isdigit(s.symbol) THEN digit_run(advance(s)) ELSE s

\* read_double taking no sign behind the exponent marker
number_exponent_unsigned(s) ==
    IF ~isdigit(s.symbol) THEN Fail(set_error(s, "InvalidNumber"))
    ELSE Pass(digit_run(s))

\* read_double at the byte after the exponent marker
number_exponent(s) ==
    IF s.symbol \in {"+", "-"} THEN Pass(digit_run(advance(s)))
    ELSE IF ~isdigit(s.symbol) THEN Fail(set_error(s, "InvalidNumber"))
    ELSE Pass(digit_run(s))

\* read_double after the fraction
number_after_fraction(s) ==
    IF s.symbol \in {"e", "E"} THEN number_exponent(advance(s)) ELSE Pass(s)

\* read_double without the fraction
number_after_integer_only(s) == number_after_fraction(s)

\* read_double after the integer digits
number_after_integer(s) ==
    number_after_fraction(IF s.symbol = "." THEN digit_run(advance(s)) ELSE s)

\* read_double after the optional '-'
number_after_sign(s) ==
    IF s.symbol = "0" THEN number_after_integer(advance(s))
    ELSE IF isdigit(s.symbol) THEN number_after_integer(digit_run(s))
    ELSE Fail(set_error(s, "NumberExpected"))

\* read_double from the optional '-' to the end of the exponent: the state
\* after the lexeme, or the failure the grammar raises.
number_lexeme(s) == number_after_sign(IF s.symbol = "-" THEN advance(s) ELSE s)

\* read_double once strtod returned c for a lexeme of length bytes
double_converted(s, c, length, value0) ==
    IF c.used # length THEN FailV(set_error(s, "NumberCouldNotBeConverted"), c.value)
    ELSE PassV(s, c.value)

\* read_double refusing only a lexeme longer than MAX_NUMBER_LENGTH
double_of_lexeme_one_more(s, start_offset, length, value0) ==
    IF length > MAX_NUMBER_LENGTH THEN FailV(set_error(s, "NumberIsTooLong"), value0)
    ELSE double_converted(s, strtod(SubSeq(m_input, start_offset + 1, start_offset + length)),
                          length, value0)

\* read_double once the lexeme [start_offset, start_offset + length) is scanned
double_of_lexeme(s, start_offset, length, value0) ==
    IF length >= MAX_NUMBER_LENGTH THEN FailV(set_error(s, "NumberIsTooLong"), value0)
    ELSE double_converted(s, strtod(SubSeq(m_input, start_offset + 1, start_offset + length)),
                          length, value0)

\* read_double once the grammar returned l
double_after_lexeme(l, start_offset, value0) ==
    IF ~l.ok THEN FailV(l.s, value0)
    ELSE double_of_lexeme(l.s, start_offset, (l.s.offset - 1) - start_offset + 1, value0)

\* read_double after its skip returned r
double_after_skip(r, value0) ==
    IF ~r.ok THEN FailV(r.s, value0)
    ELSE double_after_lexeme(number_lexeme(r.s), r.s.offset, value0)

read_double(s, value0) ==
    double_after_skip(skip_comments_and_whitespace_fail_if_eof(s), value0)

RECURSIVE read_values_from(_, _, _, _)
RECURSIVE values_after_double(_, _, _, _)
RECURSIVE values_after_comma(_, _, _, _)
\* the for loop of read(double* values, uint32_t num_elements), from index i
read_values_from(s, values, i, num_elements) ==
    IF i >= num_elements THEN PassV(s, values)
    ELSE values_after_double(read_double(s, values[i + 1]), values, i, num_elements)

\* the loop body once read_double(values[i]) returned d
values_after_double(d, values, i, num_elements) ==
    IF ~d.ok THEN FailV(d.s, [values EXCEPT ![i + 1] = d.value])
    ELSE IF i < num_elements - 1
    THEN values_after_comma(read_comma(d.s), [values EXCEPT ![i + 1] = d.value],
                            i, num_elements)
    ELSE read_values_from(d.s, [values EXCEPT ![i + 1] = d.value], i + 1, num_elements)

\* the loop body once read_comma() returned c
values_after_comma(c, values, i, num_elements) ==
    IF ~c.ok THEN FailV(c.s, values)
    ELSE read_values_from(c.s, values, i + 1, num_elements)

\* read(double* values, uint32_t num_elements)
read_values(s, values, num_elements) ==
    IF num_elements = 0 THEN PassV(s, values)
    ELSE read_values_from(s, values, 0, num_elements)

----------------------------------------------------------------------------
(* Parser: the public operations.                                          *)

\* ... && read_equal_sign() after read_key returned k
equal_sign_after(k) == IF ~k.ok THEN Fail(k.s) ELSE read_equal_sign(k.s)

\* read_key(name) && read_equal_sign()
key_and_equal_sign(s, name) == equal_sign_after(read_key(s, name))

object_begins(s) == read_opening_brace(s)

\* ... && object_begins() after the key and equal sign returned e
object_begins_after(e) == IF ~e.ok THEN e ELSE object_begins(e.s)

object_begins_named(s, having_name) ==
    object_begins_after(key_and_equal_sign(s, having_name))

object_ends(s) == read_closing_brace(s)

array_begins(s) == read_opening_bracket(s)

\* ... && read_opening_bracket() after the key and equal sign returned e
array_begins_after(e) == IF ~e.ok THEN e ELSE read_opening_bracket(e.s)

array_begins_named(s, having_name) ==
    array_begins_after(key_and_equal_sign(s, having_name))

array_ends(s) == read_closing_bracket(s)

\* if (!...) { restore_state(s); return false; } return true;
restore_if_failed(r, saved) ==
    IF ~r.ok THEN Fail(restore_state(r.s, saved)) ELSE r

try_array_begins(s, having_name) ==
    restore_if_failed(array_begins_named(s, having_name), save_state(s))

try_array_ends(s) ==
    restore_if_failed(array_ends(s), save_state(s))

\* ... && read_string(value) after the key and equal sign returned e
string_after(e, value0) == IF ~e.ok THEN FailV(e.s, value0) ELSE read_string(e.s, value0)

\* read(const char* key, StringView& value)
read_string_keyed(s, key, value0) == string_after(key_and_equal_sign(s, key), value0)

\* ... && read_bool(value) after the key and equal sign returned e
bool_after(e, value0) == IF ~e.ok THEN FailV(e.s, value0) ELSE read_bool(e.s, value0)

\* read(const char* key, bool& value)
read_bool_keyed(s, key, value0) == bool_after(key_and_equal_sign(s, key), value0)

\* ... && read_double(value) after the key and equal sign returned e
double_after(e, value0) == IF ~e.ok THEN FailV(e.s, value0) ELSE read_double(e.s, value0)

\* read(const char* key, double& value)
read_double_keyed(s, key, value0) == double_after(key_and_equal_sign(s, key), value0)

\* ... && read(values, num_elements) && ... after the opening bracket returned b
values_after_bracket(b, values, num_elements) ==
    IF ~b.ok THEN FailV(b.s, values) ELSE read_values(b.s, values, num_elements)

\* ... && read_opening_bracket() && ... after the key and equal sign returned e
bracket_after(e) == IF ~e.ok THEN e ELSE read_opening_bracket(e.s)

\* read(const char* key, double* values, uint32_t num_elements) up to the
\* closing bracket
values_before_closing(s, key, values, num_elements) ==
    values_after_bracket(bracket_after(key_and_equal_sign(s, key)), values, num_elements)

\* the result of the keyed array read, v being it up to the closing bracket
with_closing_bracket(v, c) == [ok |-> v.ok /\ c.ok, s |-> c.s, value |-> v.value]

\* the closing bracket of the keyed array read, read only if v succeeded
closing_bracket_of(v) == IF v.ok THEN read_closing_bracket(v.s) ELSE Fail(v.s)

\* the keyed array read once its part up to the closing bracket returned v
values_closed(v) == with_closing_bracket(v, closing_bracket_of(v))

\* read(const char* key, double* values, uint32_t num_elements)
read_values_keyed(s, key, values, num_elements) ==
    values_closed(values_before_closing(s, key, values, num_elements))

\* try_read(key, string) without restore_state(s)
string_or_null_unrestored(r, saved) ==
    IF ~r.ok THEN FailV(r.s, NullView) ELSE r

\* try_read(const char* key, StringView& value) once read returned r
string_or_null(r, saved) ==
    IF ~r.ok THEN FailV(restore_state(r.s, saved), NullView) ELSE r

\* try_read(const char* key, StringView& value)
try_read_string(s, key, value0) ==
    string_or_null(read_string_keyed(s, key, value0), save_state(s))

\* try_read(key, values, n) without the loop that zeroes the values
values_or_zeros_unfilled(r, saved, num_elements) ==
    IF ~r.ok THEN FailV(restore_state(r.s, saved), r.value) ELSE r

\* try_read(const char* key, double* values, uint32_t num_elements) once read
\* returned r
values_or_zeros(r, saved, num_elements) ==
    IF ~r.ok
    THEN FailV(restore_state(r.s, saved),
               [i \in DOMAIN r.value |-> IF i <= num_elements THEN Zero ELSE r.value[i]])
    ELSE r

\* try_read(const char* key, double* values, uint32_t num_elements)
try_read_values(s, key, values, num_elements) ==
    values_or_zeros(read_values_keyed(s, key, values, num_elements), save_state(s),
                    num_elements)

----------------------------------------------------------------------------
(* The inputs: the documents of the scenarios, those of PlainInputs, the   *)
(* numbers of NumberInputs and LongInputs, and every document of Bodies    *)
(* behind up to MaxLead fragments of whitespace and comments.              *)

\* `// cfg`, `name = "hello"`, `count = 3.5`, each followed by a newline
ConfigInput ==
    <<"/", "/", " ", "c", "f", "g", "\n", "n", "a", "m", "e", " ", "=", " ", "\"", "h", "e", "l", "l", "o", "\"", "\n", "c", "o", "u", "n", "t", " ", "=", " ", "3", ".", "5", "\n">>

MissingEqualInput ==
    <<"{", "a", " ", "1", "}">>

TwoFieldsInput ==
    <<"{", "a", "=", "1", ",", "b", "=", "2", "}">>

CaseKeyInput ==
    <<"n", "a", "m", "e", " ", "=", " ", "1">>

ScenarioInputs == {ConfigInput, MissingEqualInput, TwoFieldsInput, CaseKeyInput}

\* The documents put behind a lead.
Bodies ==
    {<<>>,
     <<"a", "=", "1">>,
     <<"A", " ", "=", " ", "1">>,
     <<"\"", "a", "\"", "=", "\"", "x", "\"">>,
     <<"a", "=", "[", "1", ",", "x", "]">>,
     <<"a", "=", "[", "1", ",", "2", "]">>,
     <<"a", "=", "t", "r", "u", "e">>,
     <<"=", "1">>,
     <<"]">>,
     <<"/">>,
     <<"x">>}

\* quote, a, backslash, quote, b, quote
EscapedQuoteInput == <<"\"", "a", "\\", "\"", "b", "\"">>

\* A number of n bytes: 1 and zeros, and 1, a point and fives.
LongNumber(n) == <<"1">> \o [i \in 1..(n - 1) |-> "0"]

LongFraction(n) == <<"1", ".">> \o [i \in 1..(n - 2) |-> "5"]

\* Numbers about as long as read_double takes them.
LongInputs ==
    {LongNumber(MAX_NUMBER_LENGTH - 2), LongNumber(MAX_NUMBER_LENGTH - 1),
     LongNumber(MAX_NUMBER_LENGTH), LongNumber(MAX_NUMBER_LENGTH + 1),
     LongFraction(MAX_NUMBER_LENGTH - 1), LongFraction(MAX_NUMBER_LENGTH),
     <<" ">> \o LongNumber(MAX_NUMBER_LENGTH - 1) \o <<",", "2">>}

\* Numbers and what read_double takes for none.
NumberInputs ==
    {<<"-", "0", ".", "5", "e", "+", "1">>,
     <<" ", "1", "2", ".", "5", "0", "E", "-", "3", " ">>,
     <<"1", "e">>,
     <<"1", "e", "x">>,
     <<"1", "e", "+">>,
     <<"1", ".", "5", "E", "-", "x">>,
     <<"0", "1">>,
     <<"1", ".">>,
     <<"1", "0", "]">>,
     <<"-">>,
     <<".", "5">>}

\* The documents taken as they are.
PlainInputs ==
    {<<"\"", "A", "\"", "=", "1">>,
     <<"a", "=", "\"", "x", "\\", "\"", "y", "\"">>,
     <<"a", "=", "f", "a", "l", "s", "e">>,
     <<"a", "=", "t", "r", "u">>,
     <<"a", "=", "[", "1", ",", "2">>,
     <<"a", "=", "[", "1", ",", "2", ",", "]">>,
     <<"a", "=", "[", "]">>,
     <<"a", " ", "1">>,
     <<"a", "\"", "b", "=", "1">>,
     <<"\"", "a">>,
     <<"\"", "a", "\\">>,
     <<"{", "a", "=", "1", "}">>,
     <<"a", "=", "-", "0", ".", "5", "e", "+", "1">>,
     <<"a", "=", "1", "e">>,
     <<"a", "=", "1", "e", "+">>,
     <<"a", "=", "0", "1">>,
     <<"/", "*">>,
     <<"a", "=", "[", "1", " ", ",", " ", "2", " ", "]">>,
     <<"a", " ", "/", "*", "c", "*", "/", "=", "/", "/", "c", "\n", "1">>,
     <<"1", ",", "2">>,
     <<"a", "=", "1", " ", "/", "/", "c", "\n", "/", "*", "c", "*", "/", " ">>,
     <<" ", "/", "*", "c", "*">>,
     EscapedQuoteInput,
     <<" ", "\"", "\"", "x">>,
     <<"/", "*", "c", "*", "/", " ", " ">>}

SkipFragments ==
    {<<" ">>, <<"/", "*", "c", "*", "/">>, <<"/", "/", "c", "\n">>}

RECURSIVE Leads(_)
Leads(n) ==
    IF n = 0 THEN {<<>>}
    ELSE LET shorter == Leads(n - 1) IN
         shorter \cup {l \o f : l \in shorter, f \in SkipFragments}

Inputs ==
    ScenarioInputs \cup PlainInputs \cup NumberInputs \cup LongInputs
        \cup {l \o b : l \in Leads(MaxLead), b \in Bodies}

\* The key names a caller asks for.
KeysFor(inp) ==
    IF inp = ConfigInput THEN {<<"n", "a", "m", "e">>, <<"c", "o", "u", "n", "t">>}
    ELSE IF inp = CaseKeyInput THEN {<<"n", "a", "m", "e">>, <<"N", "a", "m", "e">>}
    ELSE IF inp = TwoFieldsInput THEN {<<"a">>, <<"b">>}
    ELSE {<<"a">>, <<"A">>}

\* What the caller's output arguments hold before a call.
Seven == [neg |-> FALSE, digits |-> <<"7">>, exp |-> 0]

PriorNumbers == {Zero, Seven}

PriorViews == {NullView, StringView(0, 1)}

NoOut == [str |-> NullView, flag |-> FALSE, num |-> Zero, nums |-> <<>>]

----------------------------------------------------------------------------
(* The scripted scenarios: scen[x] counts the calls made so far when they  *)
(* are exactly the first calls of script x on its input, and is -1 once    *)
(* they are not.                                                           *)

Call(name, key, n) == [name |-> name, key |-> key, n |-> n]

NoCall == Call("none", <<>>, 0)

Scripts ==
    [config |->
        <<Call("object_begins", <<>>, 0),
          Call("read_string", <<"n", "a", "m", "e">>, 0),
          Call("read_double", <<"c", "o", "u", "n", "t">>, 0)>>,
     missing_equal |->
        <<Call("object_begins", <<>>, 0),
          Call("read_double", <<"a">>, 0)>>,
     two_fields |->
        <<Call("object_begins", <<>>, 0),
          Call("read_double", <<"a">>, 0),
          Call("read_comma", <<>>, 0),
          Call("read_double", <<"b">>, 0),
          Call("object_ends", <<>>, 0)>>]

ScriptInput ==
    [config |-> ConfigInput, missing_equal |-> MissingEqualInput,
     two_fields |-> TwoFieldsInput]

ScenStart == [x \in DOMAIN Scripts |-> 0]

ScenAfter(call) ==
    [x \in DOMAIN Scripts |->
        IF /\ m_input = ScriptInput[x]
           /\ scen[x] >= 0
           /\ scen[x] < Len(Scripts[x])
           /\ Scripts[x][scen[x] + 1] = call
        THEN scen[x] + 1
        ELSE -1]

----------------------------------------------------------------------------
(* The state machine.                                                      *)

\* The parser as constructed over one of the inputs.
Constructed(inputs) ==
    /\ m_input \in inputs
    /\ m_state = ParserState(m_input)
    /\ snapshot = <<>>
    /\ pre = ParserState(m_input)
    /\ op = NoCall
    /\ ret = TRUE
    /\ out = NoOut
    /\ scen = ScenStart

Init == Constructed(Inputs)

\* A call of the parser: r is what the method computes from m_state.  The
\* caller makes a call once it is done with the results of the one before.
Does(call, r, o) ==
    /\ op = NoCall
    /\ m_state' = r.s
    /\ pre' = m_state
    /\ op' = call
    /\ ret' = r.ok
    /\ out' = o
    /\ scen' = ScenAfter(call)
    /\ UNCHANGED <<m_input, snapshot>>

\* The calls with an output argument: StringView& value, bool& value,
\* double& value, double* values.
DoesString(call, r) == Does(call, r, [NoOut EXCEPT !.str = r.value])

DoesBool(call, r) == Does(call, r, [NoOut EXCEPT !.flag = r.value])

DoesDouble(call, r) == Does(call, r, [NoOut EXCEPT !.num = r.value])

DoesValues(call, r) == Does(call, r, [NoOut EXCEPT !.nums = r.value])

ObjectBegins ==
    Does(Call("object_begins", <<>>, 0), object_begins(m_state), NoOut)

ObjectBeginsNamed ==
    \E k \in KeysFor(m_input) :
        Does(Call("object_begins_named", k, 0), object_begins_named(m_state, k), NoOut)

ObjectEnds ==
    Does(Call("object_ends", <<>>, 0), object_ends(m_state), NoOut)

ArrayBegins ==
    Does(Call("array_begins", <<>>, 0), array_begins(m_state), NoOut)

ArrayBeginsNamed ==
    \E k \in KeysFor(m_input) :
        Does(Call("array_begins_named", k, 0), array_begins_named(m_state, k), NoOut)

ArrayEnds ==
    Does(Call("array_ends", <<>>, 0), array_ends(m_state), NoOut)

TryArrayBegins ==
    \E k \in KeysFor(m_input) :
        Does(Call("try_array_begins", k, 0), try_array_begins(m_state, k), NoOut)

TryArrayEnds ==
    Does(Call("try_array_ends", <<>>, 0), try_array_ends(m_state), NoOut)

ReadString ==
    \E k \in KeysFor(m_input), v0 \in PriorViews :
        DoesString(Call("read_string", k, 0),
            read_string_keyed(m_state, k, v0))

ReadBool ==
    \E k \in KeysFor(m_input), v0 \in BOOLEAN :
        DoesBool(Call("read_bool", k, 0),
            read_bool_keyed(m_state, k, v0))

ReadDouble ==
    \E k \in KeysFor(m_input), v0 \in PriorNumbers :
        DoesDouble(Call("read_double", k, 0),
            read_double_keyed(m_state, k, v0))

ReadValuesKeyed ==
    \E k \in KeysFor(m_input), n \in 0..MaxElems, v0 \in PriorNumbers :
        DoesValues(Call("read_values_keyed", k, n),
            read_values_keyed(m_state, k, [i \in 1..n |-> v0], n))

ReadValues ==
    \E n \in 0..MaxElems, v0 \in PriorNumbers :
        DoesValues(Call("read_values", <<>>, n),
            read_values(m_state, [i \in 1..n |-> v0], n))

TryReadString ==
    \E k \in KeysFor(m_input), v0 \in PriorViews :
        DoesString(Call("try_read_string", k, 0),
            try_read_string(m_state, k, v0))

TryReadValues ==
    \E k \in KeysFor(m_input), n \in 0..MaxElems, v0 \in PriorNumbers :
        DoesValues(Call("try_read_values", k, n),
            try_read_values(m_state, k, [i \in 1..n |-> v0], n))

RemainderIsCommentsAndWhitespace ==
    Does(Call("remainder_is_comments_and_whitespace", <<>>, 0),
         remainder_is_comments_and_whitespace(m_state), NoOut)

SkipCommentsAndWhitespace ==
    Does(Call("skip_comments_and_whitespace", <<>>, 0),
         skip_comments_and_whitespace(m_state), NoOut)

\* The private steps the claims call on their own.
ReadKey ==
    \E k \in KeysFor(m_input) :
        DoesString(Call("read_key", k, 0),
            read_key(m_state, k))

ReadComma ==
    Does(Call("read_comma", <<>>, 0), read_comma(m_state), NoOut)

ReadStringValue ==
    \E v0 \in PriorViews :
        DoesString(Call("read_string_value", <<>>, 0),
            read_string(m_state, v0))

SaveState ==
    /\ op = NoCall
    /\ snapshot' = <<save_state(m_state)>>
    /\ pre' = m_state
    /\ op' = Call("save_state", <<>>, 0)
    /\ ret' = TRUE
    /\ out' = NoOut
    /\ scen' = ScenAfter(Call("save_state", <<>>, 0))
    /\ UNCHANGED <<m_input, m_state>>

RestoreState ==
    /\ op = NoCall
    /\ snapshot # <<>>
    /\ m_state' = restore_state(m_state, snapshot[1])
    /\ pre' = m_state
    /\ op' = Call("restore_state", <<>>, 0)
    /\ ret' = TRUE
    /\ out' = NoOut
    /\ scen' = ScenAfter(Call("restore_state", <<>>, 0))
    /\ UNCHANGED <<m_input, snapshot>>

ResetState ==
    /\ op = NoCall
    /\ m_state' = reset_state(m_state)
    /\ pre' = m_state
    /\ op' = Call("reset_state", <<>>, 0)
    /\ ret' = TRUE
    /\ out' = NoOut
    /\ scen' = ScenStart
    /\ UNCHANGED <<m_input, snapshot>>

\* The caller is done with what the last call returned; the parser is untouched.
Forget ==
    /\ op # NoCall
    /\ pre' = m_state
    /\ op' = NoCall
    /\ ret' = TRUE
    /\ out' = NoOut
    /\ UNCHANGED <<m_input, m_state, snapshot, scen>>

Next ==
    \/ ObjectBegins
    \/ ObjectBeginsNamed
    \/ ObjectEnds
    \/ ArrayBegins
    \/ ArrayBeginsNamed
    \/ ArrayEnds
    \/ TryArrayBegins
    \/ TryArrayEnds
    \/ ReadString
    \/ ReadBool
    \/ ReadDouble
    \/ ReadValuesKeyed
    \/ ReadValues
    \/ TryReadString
    \/ TryReadValues
    \/ RemainderIsCommentsAndWhitespace
    \/ SkipCommentsAndWhitespace
    \/ ReadKey
    \/ ReadComma
    \/ ReadStringValue
    \/ ResetState
    \/ Forget

\* Every call but save_state and restore_state: a restore only puts back a
\* state the parser has been in.
Spec == Init /\ [][Next]_vars

SnapshotInputs ==
    {<<"a", "=", "1">>,
     <<" ", "a", "=", "x">>,
     <<"/", "/", "c", "\n", "A", "=", "t">>}

\* The same calls, with a caller that also saves and restores the state, over
\* a few documents.
InitSnapshots == Constructed(SnapshotInputs)

NextSnapshots ==
    \/ Next
    \/ SaveState
    \/ RestoreState

SpecSnapshots == InitSnapshots /\ [][NextSnapshots]_vars

----------------------------------------------------------------------------
(* The properties.                                                         *)

Cursor(s) == <<s.offset, s.line, s.column, s.symbol>>

\* The caller holds the results of call number k of script x.
Returned(x, k) == scen[x] = k /\ op # NoCall

Number(digits, exp) == [neg |-> FALSE, digits |-> digits, exp |-> exp]

TryCalls == {"try_array_begins", "try_array_ends", "try_read_string", "try_read_values"}

\* C1: a try_ call that returns false leaves offset, line, column, symbol and
\* error exactly as they were when it was called.
TryFailureInvisible ==
    (op.name \in TryCalls /\ ~ret) => m_state = pre

\* A failed try_read(key, string) whose attempt had moved the cursor and had
\* raised an error.
TryFailureInvisibleWitness ==
    /\ op.name = "try_read_string"
    /\ ~ret
    /\ read_string_keyed(pre, op.key, NullView).s.offset > pre.offset
    /\ read_string_keyed(pre, op.key, NullView).s.error # pre.error

\* C2: a failed try_read(key, string) leaves the null view in its output, and
\* a failed try_read(key, values, n) leaves 0.0 in each of the n values.
TryReadResetsOutput ==
    /\ (op.name = "try_read_string" /\ ~ret) => out.str = NullView
    /\ (op.name = "try_read_values" /\ ~ret) =>
          /\ Len(out.nums) = op.n
          /\ \A i \in 1..op.n : out.nums[i] = Zero

\* A failed try_read(key, values, 2) over values that held 7: the read had
\* stored the first number and had left the second value as it was.
TryReadResetsOutputWitness ==
    /\ op.name = "try_read_values"
    /\ ~ret
    /\ op.n = 2
    /\ read_values_keyed(pre, op.key, <<Seven, Seven>>, 2).value
          = <<Number(<<"1">>, 0), Seven>>

\* The byte at the cursor and the one after it open a comment.
AtComment(s) ==
    /\ s.symbol = "/"
    /\ s.offset + 2 <= Len(m_input)
    /\ m_input[s.offset + 2] \in {"/", "*"}

\* C3: when skip_comments_and_whitespace() returns true the cursor is at the
\* end of the input or on a byte that is neither whitespace nor the start of
\* a comment.
SkipReachesContent ==
    (op.name = "skip_comments_and_whitespace" /\ ret) =>
        \/ eof(m_state)
        \/ ~isspace(m_state.symbol) /\ ~AtComment(m_state)

\* C4: when the key token read_key(name) reads differs from name, the call
\* returns false with IncorrectKey and the cursor is back on the first byte
\* of the token, where the skip of whitespace and comments had left it.
KeyMismatchRestores ==
    (op.name = "read_key" /\ ~out.str.null /\ Bytes(out.str) # op.key) =>
        /\ ~ret
        /\ m_state.error = [error |-> "IncorrectKey",
                            line |-> m_state.line, column |-> m_state.column]
        /\ Cursor(m_state) = Cursor(skip_comments_and_whitespace(pre).s)
        /\ m_state.offset = out.str.offset - (IF m_state.symbol = "\"" THEN 1 ELSE 0)

\* read_key("Name") has read the key token name.
KeyMismatchRestoresWitness ==
    /\ op = Call("read_key", <<"N", "a", "m", "e">>, 0)
    /\ Bytes(out.str) = <<"n", "a", "m", "e">>
    /\ ~ret

\* C5, as claimed: on ConfigInput object_begins() fails, read("name", slice)
\* and read("count", d) succeed with hello and 3.5, and the cursor is then at
\* the end of the input.
ConfigScenarioEndsAtEof ==
    /\ Returned("config", 1) => ~ret
    /\ Returned("config", 2) =>
          ret /\ Bytes(out.str) = <<"h", "e", "l", "l", "o">>
    /\ Returned("config", 3) =>
          ret /\ out.num = Number(<<"3", "5">>, -1) /\ eof(m_state)

\* C5, amended: as above, and the cursor is then on the final newline, one
\* byte before the end of the input.
ConfigScenarioEndsAtNewline ==
    /\ Returned("config", 1) => ~ret
    /\ Returned("config", 2) =>
          ret /\ Bytes(out.str) = <<"h", "e", "l", "l", "o">>
    /\ Returned("config", 3) =>
          /\ ret
          /\ out.num = Number(<<"3", "5">>, -1)
          /\ ~eof(m_state)
          /\ m_state.offset = Len(m_input) - 1
          /\ m_state.symbol = "\n"

\* The three calls of the scenario have been made.
ConfigScenarioWitness == Returned("config", 3)

\* C6, as claimed: on MissingEqualInput, after object_begins() the read of
\* key a fails with EqualSignExpected recorded at line 1, column 3.
MissingEqualAtColumnThree ==
    /\ Returned("missing_equal", 1) => ret
    /\ Returned("missing_equal", 2) =>
          /\ ~ret
          /\ m_state.error = [error |-> "EqualSignExpected", line |-> 1, column |-> 3]

\* C6, amended: the error is recorded at line 1, column 4, the column of the
\* byte 1 found in place of the equal sign.
MissingEqualAtColumnFour ==
    /\ Returned("missing_equal", 1) => ret
    /\ Returned("missing_equal", 2) =>
          /\ ~ret
          /\ m_state.error = [error |-> "EqualSignExpected", line |-> 1, column |-> 4]
          /\ m_state.symbol = "1"
          /\ m_state.column = 4

\* The keyed read of the scenario has been made.
MissingEqualWitness == Returned("missing_equal", 2)

\* C7: on TwoFieldsInput object_begins(), the read of a, read_comma(), the
\* read of b and object_ends() succeed in that order with the values 1 and 2,
\* and leave the cursor at the end of the input and no error.
TwoFieldsScenario ==
    /\ Returned("two_fields", 1) => ret
    /\ Returned("two_fields", 2) => ret /\ out.num = Number(<<"1">>, 0)
    /\ Returned("two_fields", 3) => ret
    /\ Returned("two_fields", 4) => ret /\ out.num = Number(<<"2">>, 0)
    /\ Returned("two_fields", 5) => ret /\ eof(m_state) /\ m_state.error = NoError

\* The five calls of the scenario have been made.
TwoFieldsWitness == Returned("two_fields", 5)

\* C8: save_state() returns the state as it is and leaves it alone, and
\* restore_state(s) makes the state the one s was taken from, error included,
\* whatever was called in between.
SaveRestoreRoundTrip ==
    /\ op.name = "save_state" =>
          /\ snapshot = <<pre>>
          /\ m_state = pre
          /\ restore_state(m_state, save_state(m_state)) = m_state
    /\ op.name = "restore_state" => m_state = snapshot[1]

\* A restore that moved the cursor back and erased an error raised after the
\* save.
SaveRestoreWitness ==
    /\ op.name = "restore_state"
    /\ pre.offset > m_state.offset
    /\ pre.error.error # "None"
    /\ m_state.error = NoError

\* C9: the offset never exceeds the length of the input; below it the symbol
\* is the byte at the offset, at it the symbol is the sentinel; and advance()
\* at the end of the input returns false and changes nothing.
CursorInvariant ==
    /\ m_state.offset <= Len(m_input)
    /\ eof(m_state) <=> m_state.offset = Len(m_input)
    /\ m_state.offset < Len(m_input) => m_state.symbol = m_input[m_state.offset + 1]
    /\ m_state.offset = Len(m_input) => m_state.symbol = NUL
    /\ eof(m_state) => advance(m_state) = m_state /\ ~advance_ret(m_state)

\* A call has moved the cursor to the end of a non-empty input.
CursorInvariantWitness ==
    /\ op # NoCall
    /\ pre.offset < m_state.offset
    /\ m_state.offset = Len(m_input)

\* C10: advance() leaves the offset as it is or one greater, wherever the
\* cursor is, and every call but restore_state and reset_state returns with
\* the offset at or after the offset it was called at.
OffsetMonotone ==
    /\ \A o \in 0..Len(m_input) :
          advance([m_state EXCEPT !.offset = o]).offset \in {o, o + 1}
    /\ op.name \notin {"none", "restore_state", "reset_state"} =>
          m_state.offset >= pre.offset

\* read_key has skipped whitespace, read a key other than the one asked for
\* and gone back to the start of the key.
OffsetMonotoneWitness ==
    /\ op.name = "read_key"
    /\ ~ret
    /\ m_state.error.error = "IncorrectKey"
    /\ m_state.offset > pre.offset
    /\ read_unquoted_key(m_state, NullView).s.offset > m_state.offset

\* The calls that overwrite the state with one taken earlier.
Overwrites == {"restore_state", "reset_state"}

\* C11: a call that returns true leaves the recorded error (kind, line and
\* column) as it was; the error changes only when a call returns false or
\* when restore_state or reset_state overwrites the state.
ErrorSticky ==
    /\ (op.name \notin Overwrites /\ ret) => m_state.error = pre.error
    /\ m_state.error # pre.error => (~ret \/ op.name \in Overwrites)

\* A call made with an error on record has consumed input and returned true.
ErrorStickyWitness ==
    /\ op.name \notin {"none"} \cup Overwrites
    /\ ret
    /\ pre.error.error # "None"
    /\ m_state.offset > pre.offset
    /\ m_state.error = pre.error

\* What a structural call does when its skip of whitespace and comments has
\* returned k with the cursor on a byte: the expected byte is consumed and
\* the call returns true, any other byte is left under the cursor and the
\* call returns false with the error kind recorded at that byte.
StructuralOutcome(k, expected, kind) ==
    (k.ok /\ ~eof(k.s)) =>
        IF k.s.symbol = expected
        THEN /\ ret
             /\ m_state.offset = k.s.offset + 1
             /\ m_input[m_state.offset] = expected
        ELSE /\ ~ret
             /\ m_state.error =
                    [error |-> kind, line |-> k.s.line, column |-> k.s.column]
             /\ m_state.offset = k.s.offset
             /\ m_state.symbol = k.s.symbol
             /\ m_input[m_state.offset + 1] # expected

----------------------------------------------------------------------------
(* The notation read off the buffer, for the claims that speak of what the *)
(* input holds.  Offsets are 0-based; -1 stands for no match.              *)

ByteAt(o) == IF o >= 0 /\ o < Len(m_input) THEN m_input[o + 1] ELSE NUL

RECURSIVE LineCommentEnd(_)
\* The offset of the newline that ends a line comment, or the end of the input.
LineCommentEnd(o) ==
    IF o < Len(m_input) /\ ByteAt(o) # "\n" THEN LineCommentEnd(o + 1) ELSE o

\* The offsets at or after o where a */ begins.
Terminators(o) == {j \in o..(Len(m_input) - 2) : ByteAt(j) = "*" /\ ByteAt(j + 1) = "/"}

\* The offset after the */ that ends the block comment whose body begins at o.
BlockCommentEnd(o) ==
    IF Terminators(o) = {} THEN -1
    ELSE 2 + CHOOSE j \in Terminators(o) : \A i \in Terminators(o) : j <= i

RECURSIVE SkipTo(_)
RECURSIVE SkipFrom(_)
\* The offset of the first byte at or after o that belongs neither to
\* whitespace nor to a comment, the length of the input when there is none,
\* -1 when a comment on the way is malformed.
SkipTo(o) ==
    IF o >= Len(m_input) THEN Len(m_input)
    ELSE IF isspace(ByteAt(o)) THEN SkipTo(o + 1)
    ELSE IF ByteAt(o) # "/" THEN o
    ELSE IF ByteAt(o + 1) = "/" THEN SkipTo(LineCommentEnd(o + 2))
    ELSE IF ByteAt(o + 1) = "*" THEN SkipFrom(BlockCommentEnd(o + 2))
    ELSE -1

SkipFrom(e) == IF e = -1 THEN -1 ELSE SkipTo(e)

\* t is the offset of a byte of the input.
OnByte(t) == t >= 0 /\ t < Len(m_input)

\* The offset after the byte c when it is the first content at or after o.
SymbolAt(t, c) == IF OnByte(t) /\ ByteAt(t) = c THEN t + 1 ELSE -1

SymbolEnd(o, c) == IF o = -1 THEN -1 ELSE SymbolAt(SkipTo(o), c)

RECURSIVE ClosingQuote(_)
\* The offset of the quotation mark that closes a string whose body begins
\* at p: a backslash takes the byte after it along.
ClosingQuote(p) ==
    IF p >= Len(m_input) THEN -1
    ELSE IF ByteAt(p) = "\"" THEN p
    ELSE IF ByteAt(p) = "\\" THEN ClosingQuote(p + 2)
    ELSE ClosingQuote(p + 1)

RECURSIVE BareEnd(_)
\* The offset of the whitespace or = that ends a bare word, or the end of
\* the input.
BareEnd(o) ==
    IF o >= Len(m_input) \/ isspace(ByteAt(o)) \/ ByteAt(o) = "=" THEN o
    ELSE BareEnd(o + 1)

QuotedKeyEnd(t, c, name) ==
    IF c # -1 /\ SubSeq(m_input, t + 2, c) = name THEN c + 1 ELSE -1

BareKeyEnd(t, b, name) ==
    IF SubSeq(m_input, t + 1, b) = name THEN b ELSE -1

\* The offset after the key at t when it is name, quoted or bare.
KeyEnd(t, name) ==
    IF ~OnByte(t) THEN -1
    ELSE IF ByteAt(t) = "\"" THEN QuotedKeyEnd(t, ClosingQuote(t + 1), name)
    ELSE BareKeyEnd(t, BareEnd(t), name)

RECURSIVE DigitsEnd(_)
DigitsEnd(o) == IF isdigit(ByteAt(o)) THEN DigitsEnd(o + 1) ELSE o

\* The offset of the digits of an exponent whose marker is at f.
ExponentDigits(f) == IF ByteAt(f + 1) \in {"+", "-"} THEN f + 2 ELSE f + 1

ExponentEnd(f) ==
    IF f = -1 THEN -1
    ELSE IF ByteAt(f) \in {"e", "E"} /\ isdigit(ByteAt(ExponentDigits(f)))
    THEN DigitsEnd(ExponentDigits(f))
    ELSE f

FractionEnd(e) ==
    IF e = -1 THEN -1
    ELSE IF ByteAt(e) = "." THEN DigitsEnd(e + 1)
    ELSE e

IntegerEnd(i) ==
    IF ByteAt(i) = "0" THEN i + 1
    ELSE IF isdigit(ByteAt(i)) THEN DigitsEnd(i)
    ELSE -1

\* number := '-'? ('0' | [1-9][0-9]*) ('.' [0-9]*)? ([eE] [+-]? [0-9]+)?
\* The offset after the longest number that begins at t.
NumberEnd(t) ==
    IF ~OnByte(t) THEN -1
    ELSE ExponentEnd(FractionEnd(IntegerEnd(IF ByteAt(t) = "-" THEN t + 1 ELSE t)))

NoMatch == [end |-> -1, values |-> <<>>]

RECURSIVE NumbersFrom(_, _, _)
RECURSIVE NumbersNext(_, _, _, _)
\* n numbers separated by n - 1 commas, from o: the offset after the last
\* and their values in order, behind those of acc.
NumbersFrom(o, n, acc) ==
    IF o = -1 THEN NoMatch
    ELSE IF n = 0 THEN [end |-> o, values |-> acc]
    ELSE NumbersNext(SkipTo(o), NumberEnd(SkipTo(o)), n, acc)

NumbersNext(t, e, n, acc) ==
    IF e = -1 THEN NoMatch
    ELSE NumbersFrom(IF n = 1 THEN e ELSE SymbolEnd(e, ","), n - 1,
                     Append(acc, strtod(SubSeq(m_input, t + 1, e)).value))

\* The numbers r with the byte c behind them.
Followed(r, c) ==
    IF SymbolEnd(r.end, c) = -1 THEN NoMatch
    ELSE [end |-> SymbolEnd(r.end, c), values |-> r.values]

\* name, =, [ and n numbers separated by n - 1 commas, from o.
ArrayBody(o, name, n) ==
    NumbersFrom(SymbolEnd(SymbolEnd(KeyEnd(SkipTo(o), name), "="), "["), n, <<>>)

\* name = [ number , ... , number ] with n numbers, from o.
ArrayMatch(o, name, n) == Followed(ArrayBody(o, name, n), "]")

\* name = [ number , ... , number , ] with k numbers, from o.
ArrayWithTrailingComma(o, name, k) == Followed(Followed(ArrayBody(o, name, k), ","), "]")

ArityErrors == {"CommaExpected", "NumberExpected", "ClosingBracketExpected"}

\* What the keyed array read of n numbers does when the input at the cursor
\* matches as a.
ArrayOutcome(a, n) ==
    /\ ret <=> a.end # -1
    /\ ret => m_state.offset = a.end /\ out.nums = a.values
    /\ (\/ \E k \in 0..(MaxElems + 1) :
              k # n /\ ArrayMatch(pre.offset, op.key, k).end # -1
        \/ \E k \in 1..(MaxElems + 1) :
              ArrayWithTrailingComma(pre.offset, op.key, k).end # -1)
          => ~ret /\ m_state.error.error \in ArityErrors

\* C13: read(key, values, n) returns true exactly when the input at the
\* cursor is the key, =, [, n numbers separated by n - 1 commas and ]; it
\* then leaves the cursor just past ] and the numbers in values in input
\* order; with fewer or more numbers or a trailing comma it returns false
\* with CommaExpected, NumberExpected or ClosingBracketExpected.
FixedArityArray ==
    op.name = "read_values_keyed" =>
        ArrayOutcome(ArrayMatch(pre.offset, op.key, op.n), op.n)

\* The structural, key and value calls.
ConsumingCalls ==
    {"object_begins", "object_begins_named", "object_ends",
     "array_begins", "array_begins_named", "array_ends",
     "try_array_begins", "try_array_ends",
     "read_string", "read_bool", "read_double", "read_values_keyed", "read_values",
     "try_read_string", "try_read_values", "read_key", "read_comma",
     "read_string_value"}

\* The calls that begin with a skip of whitespace and comments and keep the
\* state they fail in.
SkippingCalls ==
    {"skip_comments_and_whitespace", "remainder_is_comments_and_whitespace",
     "object_begins", "object_begins_named", "object_ends",
     "array_begins", "array_begins_named", "array_ends",
     "read_string", "read_bool", "read_double", "read_values_keyed",
     "read_key", "read_comma", "read_string_value"}

RECURSIVE WhitespaceEnd(_)
\* The offset of the first byte at or after o that is no whitespace.
WhitespaceEnd(o) == IF isspace(ByteAt(o)) THEN WhitespaceEnd(o + 1) ELSE o

\* A block comment that no */ ends begins at w.
UnterminatedBlockAt(w) ==
    ByteAt(w) = "/" /\ ByteAt(w + 1) = "*" /\ BlockCommentEnd(w + 2) = -1

\* A call that meets, behind whitespace, a /* comment that runs to the end
\* of the input returns false with InputTruncated.
UnterminatedCommentTruncated ==
    (op.name \in SkippingCalls /\ UnterminatedBlockAt(WhitespaceEnd(pre.offset))) =>
        /\ ~ret
        /\ eof(m_state)
        /\ m_state.error =
               [error |-> "InputTruncated", line |-> m_state.line, column |-> m_state.column]

\* C14, as claimed: every structural, key or value call returns false or
\* returns with the offset greater than it was at the call; each step of a
\* loop moves a cursor that is not at the end of the input; and an
\* unterminated block comment ends the skip with InputTruncated.
EveryCallFailsOrAdvances ==
    /\ op.name \in ConsumingCalls => (~ret \/ m_state.offset > pre.offset)
    /\ ~eof(m_state) => advance(m_state).offset > m_state.offset
    /\ UnterminatedCommentTruncated

\* C14, amended: as above but for read(values, 0), which returns true and
\* leaves the state as it was.
EveryCallButEmptyReadFailsOrAdvances ==
    /\ (op.name \in ConsumingCalls /\ ~(op.name = "read_values" /\ op.n = 0)) =>
          (~ret \/ m_state.offset > pre.offset)
    /\ (op.name = "read_values" /\ op.n = 0) => (ret /\ m_state = pre)
    /\ ~eof(m_state) => advance(m_state).offset > m_state.offset
    /\ UnterminatedCommentTruncated

\* object_begins() has skipped whitespace and run through an unterminated
\* block comment to the end of the input.
UnterminatedCommentWitness ==
    /\ op.name = "object_begins"
    /\ pre.offset < WhitespaceEnd(pre.offset)
    /\ UnterminatedBlockAt(WhitespaceEnd(pre.offset))
    /\ ~ret
    /\ m_state.error.error = "InputTruncated"
    /\ eof(m_state)

\* What read_string does with the opening quote at offset q and the quote
\* that closes it at offset c, or none.
StringSlice(q, c) ==
    IF c = -1
    THEN /\ ~ret
         /\ eof(m_state)
         /\ m_state.error.error = "InputTruncated"
    ELSE /\ ret
         /\ out.str = StringView(q + 1, c - q - 1)
         /\ Bytes(out.str) = SubSeq(m_input, q + 2, c)
         /\ c = q + 1 => out.str.length = 0
         /\ m_state.offset = c + 1

\* What read_string does when its skip has returned k.
StringOutcome(k) ==
    (k.ok /\ k.s.symbol = "\"") => StringSlice(k.s.offset, ClosingQuote(k.s.offset + 1))

\* C15: read_string returns the bytes between the opening quote and the
\* quote that closes it, a backslash taking the next byte along: the slice
\* begins one byte after the opening quote, is as long as the distance
\* between the two quotes less one, the cursor ends one past the closing
\* quote, and EscapedQuoteInput yields the 4 bytes a, backslash, quote, b;
\* without a closing quote the call fails with InputTruncated.
StringIsRawSlice ==
    /\ op.name = "read_string_value" => StringOutcome(skip_comments_and_whitespace(pre))
    /\ (op.name = "read_string_value" /\ m_input = EscapedQuoteInput /\ pre.offset = 0) =>
          /\ ret
          /\ out.str.length = 4
          /\ Bytes(out.str) = <<"a", "\\", "\"", "b">>

\* read_string has read EscapedQuoteInput from its first byte.
StringIsRawSliceWitness ==
    /\ op.name = "read_string_value"
    /\ m_input = EscapedQuoteInput
    /\ pre.offset = 0
    /\ ret
    /\ out.str = StringView(1, 4)
    /\ eof(m_state)

\* What read_double does with the longest number [t, e) that begins where
\* the skip left the cursor, as the claim has it: an exponent marker behind
\* it with neither sign nor digit is InvalidNumber, no number at all is
\* NumberExpected, and otherwise the call succeeds with the cursor at e.
NumberAsClaimed(t, e) ==
    IF e = -1 THEN ~ret /\ m_state.error.error = "NumberExpected"
    ELSE IF ByteAt(e) \in {"e", "E"} /\ ByteAt(e + 1) \notin {"+", "-"}
    THEN ~ret /\ m_state.error.error = "InvalidNumber"
    ELSE e - t < MAX_NUMBER_LENGTH =>
            /\ ret
            /\ m_state.offset = e
            /\ out.nums = <<strtod(SubSeq(m_input, t + 1, e)).value>>

\* The same, with the exponent marker that has a sign and no digit behind it.
NumberAsScanned(t, e) ==
    IF e = -1 THEN ~ret /\ m_state.error.error = "NumberExpected"
    ELSE IF ByteAt(e) \in {"e", "E"} /\ ByteAt(e + 1) \notin {"+", "-"}
    THEN ~ret /\ m_state.error.error = "InvalidNumber"
    ELSE IF ByteAt(e) \in {"e", "E"}
    THEN e + 2 - t < MAX_NUMBER_LENGTH =>
            /\ ~ret
            /\ m_state.error.error = "NumberCouldNotBeConverted"
            /\ m_state.offset = e + 2
    ELSE e - t < MAX_NUMBER_LENGTH =>
            /\ ret
            /\ m_state.offset = e
            /\ out.nums = <<strtod(SubSeq(m_input, t + 1, e)).value>>

\* read(values, 1) is read_double(values[0]).
ReadsOneDouble == op.name = "read_values" /\ op.n = 1

\* The two readings when the skip of read_double has returned k.
NumberClaimedAfterSkip(k) ==
    (k.ok /\ ~eof(k.s)) => NumberAsClaimed(k.s.offset, NumberEnd(k.s.offset))

NumberScannedAfterSkip(k) ==
    (k.ok /\ ~eof(k.s)) => NumberAsScanned(k.s.offset, NumberEnd(k.s.offset))

ScratchSize == MAX_NUMBER_LENGTH + 1

\* The bytes read_double writes to slice for a lexeme of length bytes: the
\* lexeme and the terminator.
ScratchBytes(length) == length + 1

\* What read_double does with the number [t, e), no exponent marker behind it.
NumberWithinLength(t, e) ==
    (e # -1 /\ ByteAt(e) \notin {"e", "E"}) =>
        /\ e - t <= MAX_NUMBER_LENGTH - 1 =>
              ret /\ m_state.offset = e /\ ScratchBytes(e - t) <= ScratchSize
        /\ e - t >= MAX_NUMBER_LENGTH =>
              ~ret /\ m_state.error.error = "NumberIsTooLong"

NumberWithinLengthAfterSkip(k) ==
    (k.ok /\ ~eof(k.s)) => NumberWithinLength(k.s.offset, NumberEnd(k.s.offset))

\* C17: read_double accepts a number of up to MAX_NUMBER_LENGTH - 1 = 63
\* bytes and fails with NumberIsTooLong on one of MAX_NUMBER_LENGTH bytes or
\* more; what it writes to the scratch buffer, terminator included, fits it.
NumberLengthBound ==
    ReadsOneDouble =>
        /\ NumberWithinLengthAfterSkip(skip_comments_and_whitespace(pre))
        /\ m_state.error.error \in {"None", "NumberCouldNotBeConverted"} =>
              ScratchBytes(m_state.offset - pre.offset) <= ScratchSize

\* read_double has accepted a number of MAX_NUMBER_LENGTH - 1 bytes.
NumberLengthBoundWitness ==
    /\ ReadsOneDouble
    /\ ret
    /\ NumberEnd(pre.offset) - pre.offset = MAX_NUMBER_LENGTH - 1
    /\ m_state.offset = pre.offset + MAX_NUMBER_LENGTH - 1

\* The newline bytes before offset o, by their index in the input.
NewlinesBefore(o) == {i \in 1..o : m_input[i] = "\n"}

\* The index of the last of them, 0 when there is none.
LastNewlineBefore(o) ==
    IF NewlinesBefore(o) = {} THEN 0
    ELSE CHOOSE i \in NewlinesBefore(o) : \A j \in NewlinesBefore(o) : j <= i

\* advance() from s to n counts the byte it consumes: a newline begins a
\* line, any other byte is one more column.
ConsumedByteCounted(s, n) ==
    /\ n.offset = s.offset + 1
    /\ IF s.symbol = "\n"
       THEN n.line = s.line + 1 /\ n.column = 1
       ELSE n.line = s.line /\ n.column = s.column + 1

\* C18: advance() moves the offset by one and counts the byte it consumes,
\* a newline as one more line and column 1, any other byte as one more
\* column; so line is 1 plus the number of newlines before the offset and
\* column is 1 plus the number of bytes between the last of them, or the
\* start of the input, and the offset.
LineColumnCounted ==
    /\ ~eof(m_state) => ConsumedByteCounted(m_state, advance(m_state))
    /\ m_state.line = 1 + Cardinality(NewlinesBefore(m_state.offset))
    /\ m_state.column = 1 + m_state.offset - LastNewlineBefore(m_state.offset)

RECURSIVE BareStop(_)
\* The offset where a bare word that begins at o stops: at whitespace, an
\* equal sign, a quotation mark or the end of the input.
BareStop(o) ==
    IF o >= Len(m_input) \/ isspace(ByteAt(o)) \/ ByteAt(o) \in {"=", "\""} THEN o
    ELSE BareStop(o + 1)

\* What read_key does with the bare word from t that stops at b.
BareKeyOutcome(t, b) ==
    /\ ByteAt(b) = "\"" =>
          ~ret /\ m_state.error.error = "CannotUseQuotationMarkInUnquotedString"
    /\ (b = t /\ ByteAt(b) # "\"") =>
          ~ret /\ m_state.error.error = "KeyExpected"
    /\ ~(~out.str.null /\ out.str.length = 0)

\* What read_key does when its skip has returned k with the cursor on a
\* byte that is no quotation mark.
BareKeyAfterSkip(k) ==
    (k.ok /\ ~eof(k.s) /\ k.s.symbol # "\"") =>
        BareKeyOutcome(k.s.offset, BareStop(k.s.offset))

\* C19: when read_key(name) reads a bare key, a key of no bytes before the
\* whitespace or equal sign that ends it fails with KeyExpected, a
\* quotation mark in it fails with CannotUseQuotationMarkInUnquotedString,
\* and no empty bare key is ever extracted and compared with name.
UnquotedKeyNeverEmpty ==
    op.name = "read_key" => BareKeyAfterSkip(skip_comments_and_whitespace(pre))

\* What remainder_is_comments_and_whitespace() does when the first byte from
\* the cursor on that is neither whitespace nor in a comment is at e.
RemainderOutcome(e) ==
    /\ ret <=> e = Len(m_input)
    /\ ret => eof(m_state)
    /\ OnByte(e) <=> (~ret /\ m_state.error.error = "UnexpectedContentAtEnd")
    /\ e = -1 =>
          ~ret /\ m_state.error.error \in {"CommentBeginsIncorrectly", "InputTruncated"}

\* C20: remainder_is_comments_and_whitespace() returns true exactly when
\* all that is left is whitespace and well-formed comments, and then ends at
\* the end of the input; it fails with UnexpectedContentAtEnd exactly when a
\* content byte is left, and with CommentBeginsIncorrectly or InputTruncated
\* on a malformed comment.
RemainderAccepted ==
    op.name = "remainder_is_comments_and_whitespace" =>
        RemainderOutcome(SkipTo(pre.offset))

====
